---- MODULE Spec2Model ----
(***************************************************************************)
(* A model of the cricket commentary video pipeline:                       *)
(*   main.py                     CricketCommentaryPipeline (orchestrator)  *)
(*   cricket_avatar_generator.py AvatarVideoGenerator (submit, poll, fetch)*)
(*   cricket_video_composer.py   VideoComposer (compose, concatenate)      *)
(* The remote providers, the media toolchain and the two upstream stages   *)
(* (scripts, charts) are the environment: their answers are chosen         *)
(* nondeterministically from the sets below.                               *)
(***************************************************************************)
EXTENDS Integers, Sequences, FiniteSets, TLC

VARIABLES
    provider,           \* AvatarVideoGenerator.provider / config['avatar_provider']
    api_key,            \* TRUE iff an avatar API key is configured
    pc,                 \* position of the single thread of control
    stage,              \* per stage: "idle", "running", "success", "failure"
    errorReported,      \* the print_error message of run_full_pipeline, or "none"
    result,             \* return value of run_full_pipeline: "none", "true", "false"
    script_segments,    \* self.script_segments: sequence of segment ids
    charts,             \* self.charts: set of chart names, or {} before the stage
    video_tasks,        \* local of generate_commentary_videos
    submitResp,         \* history: the provider's answer to each segment's submit
    paceSleeps,         \* history: number of time.sleep(1) calls in the submit loop
    pending_tasks,      \* local of generate_commentary_videos
    tasks_to_check,     \* the round's snapshot of pending_tasks
    ti,                 \* index of the next task of the snapshot
    attempt,            \* local of generate_commentary_videos
    completed_videos,   \* local of generate_commentary_videos (the return value)
    pollSleeps,         \* history: number of time.sleep(5) calls in the poll loop
    statusCalls,        \* history: check_video_status calls per segment
    fetchCalls,         \* history: download_video calls per segment
    status_info,        \* the last value returned (or raised) by check_video_status
    lastTask,           \* segment id of the task examined last, 0 if none
    outcome,            \* what was printed about each segment's job
    avatar_videos,      \* self.avatar_videos
    composed_segments,  \* local of create_final_video
    ci,                 \* index of the next artifact to compose
    concat_list,        \* content of concat_list.txt, in file order
    concatCalls,        \* history: number of concatenate_videos calls
    concat_rc,          \* history: what the last concatenation reported
    composeLog,         \* history: the media steps of each compose_segment call
    placeholder,        \* the artifacts listed in the placeholder file written
    final_video,        \* self.final_video
    exit_code,          \* the argument of sys.exit, NotExited while running
    interruptedAt,      \* history: pc at which KeyboardInterrupt was raised
    cancel_requested,   \* environment: a cancellation was requested
    client              \* direct use of the client: the last call's task,
                        \* locator, local path and the requests sent so far

vars == <<provider, api_key, pc, stage, errorReported, result, script_segments,
          charts, video_tasks, submitResp, paceSleeps, pending_tasks,
          tasks_to_check, ti, attempt, completed_videos, pollSleeps,
          statusCalls, fetchCalls, status_info, lastTask, outcome,
          avatar_videos, composed_segments, ci, concat_list, concatCalls,
          concat_rc, composeLog, placeholder, final_video, exit_code,
          interruptedAt, cancel_requested, client>>

(***************************************************************************)
(* Bounds of the model.                                                    *)
(***************************************************************************)
\* The provider answers anything in poll rounds 1..MaxEventRound; in later
\* rounds a job that is still pending keeps answering "processing".
MaxEventRound == 2
\* Direct use of the client sends at most MaxClientRequests requests.
MaxClientRequests == 2

(***************************************************************************)
(* Program constants.                                                      *)
(***************************************************************************)
max_attempts == 60
PollInterval == 5
SubmitDelay == 1
\* main.py: return 0, return 1 / sys.exit(1), sys.exit(130).
ExitSuccess == 0
ExitFailure == 1
ExitInterrupted == 130
\* The process has not called sys.exit yet.
NotExited == -1

\* create_timed_script: three segments, ids 1, 2, 3, in this order.
TimedScript == <<1, 2, 3>>
\* generate_scripts, ImportError fallback: one inline segment, id 1.
InlineScript == <<1>>
SegIds == {TimedScript[i] : i \in 1..Len(TimedScript)}

\* generate_all_charts: the chart dictionary's keys.
AllCharts == {"run_rate", "manhattan", "wagon_wheel", "partnership"}

Providers == {"heygen", "d-id", "other"}
StageNames == <<"Scripts", "Charts", "Jobs", "Assembly">>
StagePc == <<"scripts", "charts", "submit", "assembly">>
\* run_full_pipeline: the print_error text of each stage.
StageError == <<"Script generation failed", "Chart generation failed",
                "Avatar video generation failed", "Video composition failed">>

(***************************************************************************)
(* Helpers on sequences.                                                   *)
(***************************************************************************)
\* list.remove(x): drop the first element equal to x.
RECURSIVE Remove(_, _)
Remove(s, x) ==
    IF s = <<>> THEN <<>>
    ELSE IF Head(s) = x THEN Tail(s)
    ELSE <<Head(s)>> \o Remove(Tail(s), x)

SegsOf(s) == {s[i].segment_id : i \in 1..Len(s)}
IdSeq(s) == [i \in 1..Len(s) |-> s[i].segment_id]

(***************************************************************************)
(* Remote render client: submit.                                           *)
(***************************************************************************)
\* What the provider can answer to a submit: a body with a job id, a
\* well-formed body without one, an HTTP error status, a transport error
\* (timeout, connection), a body that is not the expected JSON.
SubmitResponses == {"ok", "no_id", "http_error", "transport_error", "bad_body"}

\* Content locators are strings; they are modelled as sequences whose
\* leading elements are the first characters of the string, one by one,
\* and whose remaining elements stand for the rest of it.
NoLocator == <<>>

\* Line 206: f"mock_avatar_segment_{segment_id}.mp4".
MockSubmitLocator(seg) ==
    <<"m", "o", "c", "k", "_", "avatar_segment_", seg, ".mp4">>

_create_mock_response(seg) ==
    [provider |-> "mock", video_id |-> "mock_video", status |-> "completed",
     segment_id |-> seg, video_url |-> MockSubmitLocator(seg)]

LiveResponse(p, seg, resp) ==
    IF resp \in {"ok", "no_id"}
    THEN [provider |-> p,
          video_id |-> IF resp = "ok" THEN "video_id" ELSE "None",
          status |-> "processing", segment_id |-> seg, video_url |-> NoLocator]
    ELSE _create_mock_response(seg)

create_avatar_video_heygen(seg, resp) ==
    IF ~api_key THEN _create_mock_response(seg)
    ELSE LiveResponse("heygen", seg, resp)

create_avatar_video_did(seg, resp) ==
    IF ~api_key THEN _create_mock_response(seg)
    ELSE LiveResponse("d-id", seg, resp)

\* generate_commentary_videos, lines 296-307: the provider branch.
CreateTask(seg, resp) ==
    IF provider = "heygen" THEN create_avatar_video_heygen(seg, resp)
    ELSE IF provider = "d-id" THEN create_avatar_video_did(seg, resp)
    ELSE _create_mock_response(seg)

\* A request is sent only by a live provider with an API key.
SendsRequest == provider \in {"heygen", "d-id"} /\ api_key

(***************************************************************************)
(* Remote render client: status, and the artifact fetcher.                 *)
(***************************************************************************)
\* What the status endpoint can answer: a JSON body carrying a status string
\* and possibly a content locator, an HTTP error status, a body that is not
\* JSON, or no answer at all (transport error or timeout: requests.get raises).
StatusBodies ==
    { [kind |-> "body", status |-> "completed", video_url |-> "url"],
      [kind |-> "body", status |-> "completed", video_url |-> "None"],
      [kind |-> "body", status |-> "processing", video_url |-> "None"],
      [kind |-> "body", status |-> "pending", video_url |-> "None"],
      [kind |-> "body", status |-> "failed", video_url |-> "None"],
      [kind |-> "body", status |-> "error", video_url |-> "None"] }
StatusFailures ==
    { [kind |-> "http_error", status |-> "None", video_url |-> "None"],
      [kind |-> "bad_json", status |-> "None", video_url |-> "None"] }
TransportError == [kind |-> "transport_error", status |-> "None", video_url |-> "None"]
StillProcessing == [kind |-> "body", status |-> "processing", video_url |-> "None"]

StatusResponses(round) ==
    IF round <= MaxEventRound
    THEN StatusBodies \cup StatusFailures \cup {TransportError}
    ELSE {StillProcessing}

\* check_video_status for a live provider with an API key: the request is
\* outside the try block, so a transport error propagates ("raised"); an
\* HTTP error status or an unparsable body becomes status "error".
check_video_status(resp) ==
    IF resp.kind = "transport_error"
    THEN [status |-> "raised", video_url |-> "None"]
    ELSE IF resp.kind \in {"http_error", "bad_json"}
    THEN [status |-> "error", video_url |-> "None"]
    ELSE [status |-> resp.status, video_url |-> resp.video_url]

NoStatus == [status |-> "none", video_url |-> "None"]

\* check_video_status, lines 215-222: the answers synthesized without a
\* request, for a mock job and for a client without an API key.
IsSynthetic(p) == p = "mock" \/ ~api_key

\* A plausible slip: the locator synthesized without an API key lacks the
\* prefix.
SyntheticStatus_NoPrefix(video_id, p) ==
    IF p = "mock"
    THEN [status |-> "completed",
          video_url |-> <<"m", "o", "c", "k", "_", "video_", video_id, ".mp4">>]
    ELSE [status |-> "completed",
          video_url |-> <<"v", "i", "d", "e", "o", "_", video_id, ".mp4">>]

SyntheticStatus(video_id, p) ==
    IF p = "mock"
    THEN [status |-> "completed",
          video_url |-> <<"m", "o", "c", "k", "_", "video_", video_id, ".mp4">>]
    ELSE [status |-> "completed",
          video_url |-> <<"m", "o", "c", "k", "_", video_id, ".mp4">>]

\* The locator a live provider answers with: an https URL.
RemoteLocator(video_url) ==
    IF video_url = "None" THEN NoLocator
    ELSE <<"h", "t", "t", "p", "s", ":", "/", "/", video_url>>

\* str.startswith.
startswith(str, prefix) ==
    /\ Len(str) >= Len(prefix)
    /\ SubSeq(str, 1, Len(prefix)) = prefix

\* download_video, line 260: the prefix of a synthetic locator.
MockPrefix == <<"m", "o", "c", "k", "_">>

\* download_video sends a request unless the locator is synthetic.
UsesNetwork(video_url) == ~startswith(video_url, MockPrefix)

\* download_video, lines 257-280: a placeholder file for a synthetic
\* locator; otherwise the downloaded file, or None on any error.
download_video(video_url, seg, net_ok) ==
    IF startswith(video_url, MockPrefix) THEN <<"avatar_videos", seg>>
    ELSE IF net_ok THEN <<"avatar_videos", seg>>
    ELSE <<"None", seg>>

Artifact(task, path) ==
    [segment_id |-> task.segment_id, video_id |-> task.video_id,
     status |-> "completed", local_path |-> path]

(***************************************************************************)
(* Orchestrator: run_full_pipeline's sequencing of the four stages.        *)
(***************************************************************************)
\* A plausible slip: a failed stage is reported but the run goes on.
StageEnds_NoHalt(k, ok) ==
    IF k < Len(StageNames)
    THEN /\ stage' = [stage EXCEPT ![k] = IF ok THEN "success" ELSE "failure",
                                   ![k + 1] = "running"]
         /\ pc' = StagePc[k + 1]
         /\ result' = result
         /\ errorReported' = IF ok THEN errorReported ELSE StageError[k]
    ELSE /\ stage' = [stage EXCEPT ![k] = IF ok THEN "success" ELSE "failure"]
         /\ pc' = "done"
         /\ result' = IF ok THEN "true" ELSE "false"
         /\ errorReported' = IF ok THEN errorReported ELSE StageError[k]

\* Stage k returned ok: on success the next stage starts (after the last one
\* the run returns True); on failure the stage's error is printed and the
\* run returns False.
StageEnds(k, ok) ==
    IF ok
    THEN IF k < Len(StageNames)
         THEN /\ stage' = [stage EXCEPT ![k] = "success", ![k + 1] = "running"]
              /\ pc' = StagePc[k + 1]
              /\ UNCHANGED <<result, errorReported>>
         ELSE /\ stage' = [stage EXCEPT ![k] = "success"]
              /\ pc' = "done"
              /\ result' = "true"
              /\ UNCHANGED errorReported
    ELSE /\ stage' = [stage EXCEPT ![k] = "failure"]
         /\ pc' = "done"
         /\ result' = "false"
         /\ errorReported' = StageError[k]

pollerLocals == <<video_tasks, submitResp, paceSleeps, pending_tasks,
                  tasks_to_check, ti, attempt, completed_videos, pollSleeps,
                  statusCalls, fetchCalls, status_info, lastTask>>
composerVars == <<composed_segments, ci, concat_list, concatCalls, concat_rc,
                  composeLog, placeholder, final_video>>
configVars == <<provider, api_key>>
processVars == <<exit_code, interruptedAt>>

ZeroCalls == [s \in SegIds |-> 0]
NoResp == [s \in SegIds |-> "none"]

\* The generator object and the locals of generate_commentary_videos are
\* gone once generate_avatar_videos returns.
DropPollerLocals ==
    /\ video_tasks' = <<>>
    /\ submitResp' = NoResp
    /\ paceSleeps' = 0
    /\ pending_tasks' = <<>>
    /\ tasks_to_check' = <<>>
    /\ ti' = 0
    /\ attempt' = 0
    /\ completed_videos' = <<>>
    /\ pollSleeps' = 0
    /\ statusCalls' = ZeroCalls
    /\ fetchCalls' = ZeroCalls
    /\ lastTask' = 0

\* No call has been made on the client.
NoTask == [provider |-> "none", video_id |-> "None", status |-> "none",
           segment_id |-> 0, video_url |-> NoLocator]
NoCall == [op |-> "none", task |-> NoTask, video_url |-> NoLocator,
           local_path |-> <<"None", 0>>, requests |-> 0]

Init ==
    /\ provider \in Providers
    /\ api_key \in BOOLEAN
    /\ pc = "start"
    /\ stage = [k \in 1..Len(StageNames) |-> "idle"]
    /\ errorReported = "none"
    /\ result = "none"
    /\ script_segments = <<>>
    /\ charts = {}
    /\ video_tasks = <<>>
    /\ submitResp = NoResp
    /\ paceSleeps = 0
    /\ pending_tasks = <<>>
    /\ tasks_to_check = <<>>
    /\ ti = 0
    /\ attempt = 0
    /\ completed_videos = <<>>
    /\ pollSleeps = 0
    /\ statusCalls = ZeroCalls
    /\ fetchCalls = ZeroCalls
    /\ status_info = NoStatus
    /\ lastTask = 0
    /\ outcome = [s \in SegIds |-> "none"]
    /\ avatar_videos = <<>>
    /\ composed_segments = <<>>
    /\ ci = 0
    /\ concat_list = <<>>
    /\ concatCalls = 0
    /\ concat_rc = "none"
    /\ composeLog = <<>>
    /\ placeholder = <<>>
    /\ final_video = "None"
    /\ exit_code = NotExited
    /\ interruptedAt = "none"
    /\ cancel_requested = FALSE
    /\ client = NoCall

\* run_full_pipeline is called: stage 1 starts.
run_full_pipeline ==
    /\ pc = "start"
    /\ pc' = "scripts"
    /\ stage' = [stage EXCEPT ![1] = "running"]
    /\ UNCHANGED <<configVars, cancel_requested, client, processVars, errorReported, result, script_segments, charts,
                   pollerLocals, outcome, avatar_videos, composerVars>>

\* generate_scripts: the script generator's three segments, the inline
\* fallback on ImportError, or False on any other exception.
generate_scripts ==
    /\ pc = "scripts"
    /\ \E how \in {"ok", "import_error", "exception"} :
        /\ script_segments' = IF how = "ok" THEN TimedScript
                              ELSE IF how = "import_error" THEN InlineScript
                              ELSE script_segments
        /\ StageEnds(1, how # "exception")
    /\ UNCHANGED <<configVars, cancel_requested, client, processVars, charts, pollerLocals, outcome, avatar_videos,
                   composerVars>>

\* generate_charts: all charts, or False on any exception.
generate_charts ==
    /\ pc = "charts"
    /\ \E ok \in BOOLEAN :
        /\ charts' = IF ok THEN AllCharts ELSE charts
        /\ StageEnds(2, ok)
    /\ UNCHANGED <<configVars, cancel_requested, client, processVars, script_segments, pollerLocals, outcome,
                   avatar_videos, composerVars>>

(***************************************************************************)
(* Stage 3, generate_commentary_videos, part 1: the submit loop.           *)
(***************************************************************************)
\* One iteration of the loop of lines 292-313: create the task, append it,
\* sleep one second.
SubmitSegment ==
    /\ pc = "submit"
    /\ Len(video_tasks) < Len(script_segments)
    /\ LET seg == script_segments[Len(video_tasks) + 1] IN
       \E resp \in (IF SendsRequest THEN SubmitResponses ELSE {"not_sent"}) :
        /\ video_tasks' = Append(video_tasks, CreateTask(seg, resp))
        /\ submitResp' = [submitResp EXCEPT ![seg] = resp]
        /\ paceSleeps' = paceSleeps + 1
    /\ UNCHANGED <<configVars, cancel_requested, client, processVars, pc, stage, errorReported, result, script_segments,
                   charts, pending_tasks, tasks_to_check, ti, attempt,
                   completed_videos, pollSleeps, statusCalls, fetchCalls,
                   status_info, lastTask, outcome, avatar_videos, composerVars>>

\* Lines 318-322: completed_videos = [], pending_tasks = list(video_tasks),
\* attempt = 0.
BeginPolling ==
    /\ pc = "submit"
    /\ Len(video_tasks) = Len(script_segments)
    /\ completed_videos' = <<>>
    /\ pending_tasks' = video_tasks
    /\ attempt' = 0
    /\ pc' = "loop"
    /\ UNCHANGED <<configVars, cancel_requested, client, processVars, stage, errorReported, result, script_segments,
                   charts, video_tasks, submitResp, paceSleeps, tasks_to_check,
                   ti, pollSleeps, statusCalls, fetchCalls, status_info,
                   lastTask, outcome, avatar_videos, composerVars>>

(***************************************************************************)
(* Stage 3, part 2: the poll loop.                                         *)
(***************************************************************************)
\* A plausible slip: the loop goes on with nothing left to poll.
LoopContinues_IgnoresPending == attempt < max_attempts

\* A plausible slip: one round too many.
LoopContinues_OffByOne == pending_tasks # <<>> /\ attempt <= max_attempts

\* Line 324: the while condition.
LoopContinues == pending_tasks # <<>> /\ attempt < max_attempts

\* A plausible slip: the round walks every submitted task.
Snapshot_AllTasks == video_tasks

\* Line 330: tasks_to_check = list(pending_tasks).
Snapshot == pending_tasks

\* Lines 324-330: a round starts.
RoundStart ==
    /\ pc = "loop"
    /\ LoopContinues
    /\ attempt' = attempt + 1
    /\ tasks_to_check' = Snapshot
    /\ ti' = 1
    /\ pc' = "round"
    /\ UNCHANGED <<configVars, cancel_requested, client, processVars, stage, errorReported, result, script_segments,
                   charts, video_tasks, submitResp, paceSleeps, pending_tasks,
                   completed_videos, pollSleeps, statusCalls, fetchCalls,
                   status_info, lastTask, outcome, avatar_videos, composerVars>>

\* A plausible slip: the round walks the list it removes from.
IterationList_Live == pending_tasks

\* Line 332: for task in tasks_to_check.
IterationList == tasks_to_check

\* A plausible slip: an unrecognized status is handled like an error.
Branch_UnknownIsFailed(si) ==
    IF si.status = "completed" /\ si.video_url # "None" THEN "fetch"
    ELSE IF si.status = "processing" \/ si.status = "pending" THEN "wait"
    ELSE "failed"

\* A plausible slip: the completed branch does not test the locator.
Branch_CompletedWithoutLocator(si) ==
    IF si.status = "completed" THEN "fetch"
    ELSE IF si.status = "error" THEN "failed"
    ELSE IF si.status = "processing" \/ si.status = "pending" THEN "wait"
    ELSE "unknown"

\* Lines 356-387: the branch taken on a status.
Branch(si) ==
    IF si.status = "completed" /\ si.video_url # "None" THEN "fetch"
    ELSE IF si.status = "error" THEN "failed"
    ELSE IF si.status = "processing" \/ si.status = "pending" THEN "wait"
    ELSE "unknown"

\* A plausible slip: every examined task is removed, in flight or not.
PendingAfter_RemoveAlways(task, branch, path) == Remove(pending_tasks, task)

\* A plausible slip: the completed branch forgets pending_tasks.remove(task).
PendingAfter_KeepCompleted(task, branch, path) ==
    IF branch = "failed" THEN Remove(pending_tasks, task)
    ELSE pending_tasks

\* A plausible slip: the task is removed only when its download succeeded.
PendingAfter_KeepOnFetchFailure(task, branch, path) ==
    IF branch = "fetch" /\ path[1] # "None" THEN Remove(pending_tasks, task)
    ELSE IF branch = "failed" THEN Remove(pending_tasks, task)
    ELSE pending_tasks

\* A plausible slip: the error branch forgets pending_tasks.remove(task).
PendingAfter_KeepOnError(task, branch, path) ==
    IF branch = "fetch" THEN Remove(pending_tasks, task)
    ELSE pending_tasks

\* Lines 376, 380: pending_tasks.remove(task) in the fetch and error
\* branches, whatever the download returned.
PendingAfter(task, branch, path) ==
    IF branch \in {"fetch", "failed"} THEN Remove(pending_tasks, task)
    ELSE pending_tasks

\* A plausible slip: the artifact is appended before the path is tested.
CompletedAfter_Unchecked(task, branch, path) ==
    IF branch = "fetch"
    THEN Append(completed_videos, Artifact(task, path))
    ELSE completed_videos

\* Lines 366-372: the artifact is appended iff the download returned a path.
CompletedAfter(task, branch, path) ==
    IF branch = "fetch" /\ path[1] # "None"
    THEN Append(completed_videos, Artifact(task, path))
    ELSE completed_videos

\* What is printed about the job in each branch (lines 357, 374, 379).
OutcomeAfter(seg, branch, path) ==
    IF branch = "fetch"
    THEN [outcome EXCEPT ![seg] = IF path[1] # "None" THEN "completed"
                                  ELSE "download_failed"]
    ELSE IF branch = "failed" THEN [outcome EXCEPT ![seg] = "failed"]
    ELSE outcome

\* A plausible slip: the mock branch forgets pending_tasks.remove(task).
CheckMock_NoRemove(task) ==
    /\ completed_videos' =
           Append(completed_videos,
                  Artifact(task, <<"avatar_videos", task.segment_id>>))
    /\ pending_tasks' = pending_tasks
    /\ outcome' = [outcome EXCEPT ![task.segment_id] = "completed"]
    /\ status_info' = NoStatus
    /\ UNCHANGED <<statusCalls, fetchCalls>>

\* Lines 335-348: a mock task is completed on the spot, with a placeholder
\* file, no status query and no download.
CheckMock(task) ==
    /\ completed_videos' =
           Append(completed_videos,
                  Artifact(task, <<"avatar_videos", task.segment_id>>))
    /\ pending_tasks' = Remove(pending_tasks, task)
    /\ outcome' = [outcome EXCEPT ![task.segment_id] = "completed"]
    /\ status_info' = NoStatus
    /\ UNCHANGED <<statusCalls, fetchCalls>>

\* Lines 351-387: a live task's status is queried and acted on.
CheckLive(task, si, net_ok) ==
    LET seg == task.segment_id
        branch == Branch(si)
        path == download_video(RemoteLocator(si.video_url), seg, net_ok)
    IN  /\ statusCalls' = [statusCalls EXCEPT ![seg] = @ + 1]
        /\ status_info' = si
        /\ fetchCalls' = IF branch = "fetch"
                         THEN [fetchCalls EXCEPT ![seg] = @ + 1]
                         ELSE fetchCalls
        /\ completed_videos' = CompletedAfter(task, branch, path)
        /\ pending_tasks' = PendingAfter(task, branch, path)
        /\ outcome' = OutcomeAfter(seg, branch, path)

\* One iteration of the for loop of line 332.  A transport error raised by
\* the status request leaves generate_commentary_videos; it is caught in
\* generate_avatar_videos (main.py 223-225), which returns False.
CheckTask ==
    /\ pc = "round"
    /\ ti <= Len(IterationList)
    /\ LET task == IterationList[ti] IN
       IF task.provider = "mock"
       THEN /\ CheckMock(task)
            /\ lastTask' = task.segment_id
            /\ ti' = ti + 1
            /\ UNCHANGED <<pc, stage, errorReported, result, video_tasks,
                           submitResp, paceSleeps, tasks_to_check, attempt,
                           pollSleeps>>
       ELSE \E resp \in StatusResponses(attempt), net_ok \in BOOLEAN :
            LET si == check_video_status(resp) IN
            IF si.status = "raised"
            THEN /\ DropPollerLocals
                 /\ status_info' = si
                 /\ StageEnds(3, FALSE)
                 /\ UNCHANGED outcome
            ELSE /\ CheckLive(task, si, net_ok)
                 /\ lastTask' = task.segment_id
                 /\ ti' = ti + 1
                 /\ UNCHANGED <<pc, stage, errorReported, result, video_tasks,
                                submitResp, paceSleeps, tasks_to_check, attempt,
                                pollSleeps>>
    /\ UNCHANGED <<configVars, cancel_requested, client, processVars, script_segments, charts, avatar_videos,
                   composerVars>>

\* A plausible slip: the sleep is not guarded by "if pending_tasks".
SleepsAfterRound_Unguarded == IF pending_tasks # <<>> THEN 1 ELSE 1

\* Lines 389-391: sleep iff something is still pending.
SleepsAfterRound == IF pending_tasks # <<>> THEN 1 ELSE 0

RoundEnd ==
    /\ pc = "round"
    /\ ti > Len(IterationList)
    /\ pollSleeps' = pollSleeps + SleepsAfterRound
    /\ pc' = "loop"
    /\ UNCHANGED <<configVars, cancel_requested, client, processVars, stage, errorReported, result, script_segments,
                   charts, video_tasks, submitResp, paceSleeps, pending_tasks,
                   tasks_to_check, ti, attempt, completed_videos, statusCalls,
                   fetchCalls, status_info, lastTask, outcome, avatar_videos,
                   composerVars>>

\* Lines 393-397: the tasks still pending are printed as timed out.
LoopExit ==
    /\ pc = "loop"
    /\ ~LoopContinues
    /\ outcome' = [s \in SegIds |->
                     IF s \in SegsOf(pending_tasks) THEN "timed_out"
                     ELSE outcome[s]]
    /\ pc' = "return"
    /\ UNCHANGED <<configVars, cancel_requested, client, processVars, stage, errorReported, result, script_segments,
                   charts, pollerLocals, avatar_videos, composerVars>>

\* Line 399: the value generate_commentary_videos returns.
ReturnValue == completed_videos

\* A plausible slip: the stage reports failure when jobs timed out.
JobsStageOk_FailOnTimeout == pending_tasks = <<>>

\* main.py 219-221: generate_avatar_videos returns True whatever was returned.
JobsStageOk == TRUE

\* main.py 215-221: the returned list becomes self.avatar_videos and the
\* stage returns True.
JobsReturn ==
    /\ pc = "return"
    /\ avatar_videos' = ReturnValue
    /\ DropPollerLocals
    /\ status_info' = NoStatus
    /\ StageEnds(3, JobsStageOk)
    /\ UNCHANGED <<configVars, cancel_requested, client, processVars, script_segments, charts, outcome, composerVars>>

(***************************************************************************)
(* Stage 4: compose_final_video, create_final_video, compose_segment.      *)
(***************************************************************************)
\* A plausible slip: a missing toolchain fails the stage.
MockOutputOk_Fail == FALSE

\* main.py 250: what compose_final_video returns after writing the mock
\* file.
MockOutputOk == TRUE

\* main.py 240-250: the orchestrator's probe of the toolchain.  Without it
\* a two-line mock file is written (it lists no input) and the stage
\* returns True.
compose_final_video ==
    /\ pc = "assembly"
    /\ \E check_ffmpeg \in BOOLEAN :
        IF check_ffmpeg
        THEN /\ pc' = "create_final_video"
             /\ UNCHANGED <<stage, errorReported, result, final_video>>
        ELSE /\ final_video' = "mock_final_video.txt"
             /\ StageEnds(4, MockOutputOk)
    /\ placeholder' = <<>>
    /\ UNCHANGED <<configVars, cancel_requested, client, processVars, script_segments, charts, pollerLocals, outcome,
                   avatar_videos, composed_segments, ci, concat_list,
                   concatCalls, concat_rc, composeLog>>

\* Lines 284-285 of the composer: one manifest line per segment, in order.
Manifest(segments) ==
    [i \in 1..Len(segments) |->
        [segment_id |-> segments[i].segment_id,
         local_path |-> segments[i].local_path]]

\* cricket_video_composer.py 273-288: create_final_video probes again.
\* Without the toolchain it writes the manifest to "mock_" + output_filename;
\* the orchestrator's output_filename starts with the directory
\* cricket_output/, so the file can be opened only if a directory
\* mock_cricket_output exists (no code creates it): otherwise open() raises
\* and compose_final_video returns False (main.py 264-266).
create_final_video ==
    /\ pc = "create_final_video"
    /\ \E check_ffmpeg \in BOOLEAN, dir_exists \in BOOLEAN :
        IF check_ffmpeg
        THEN /\ pc' = "compose"
             /\ ci' = 1
             /\ composed_segments' = <<>>
             /\ UNCHANGED <<stage, errorReported, result, final_video,
                            placeholder>>
        ELSE IF dir_exists
        THEN /\ placeholder' = Manifest(avatar_videos)
             /\ final_video' = "mock_cricket_commentary_final.mp4"
             /\ StageEnds(4, TRUE)
             /\ UNCHANGED <<ci, composed_segments>>
        ELSE /\ StageEnds(4, FALSE)
             /\ UNCHANGED <<ci, composed_segments, final_video, placeholder>>
    /\ UNCHANGED <<configVars, cancel_requested, client, processVars, script_segments, charts, pollerLocals, outcome,
                   avatar_videos, concat_list, concatCalls, concat_rc,
                   composeLog>>

\* A plausible slip: the manhattan chart is mapped to segment 2.
chart_mapping_Shifted(seg) ==
    IF seg = 1 THEN (IF "run_rate" \in charts THEN "run_rate" ELSE "None")
    ELSE IF seg = 2 THEN (IF "manhattan" \in charts THEN "manhattan" ELSE "None")
    ELSE "None"

\* Lines 291-295 and 301: chart_mapping.get(segment_id).
chart_mapping(seg) ==
    IF seg = 1 THEN (IF "run_rate" \in charts THEN "run_rate" ELSE "None")
    ELSE IF seg = 3 THEN (IF "manhattan" \in charts THEN "manhattan" ELSE "None")
    ELSE "None"

NonePath(seg) == <<"None", seg>>
\* A plausible slip: the loop appends whatever compose_segment returned.
IsNone_Never(path) == path[1] = "None" /\ path[1] # "None"
\* Line 304: "if composed_path" is false exactly for None.
IsNone(path) == path[1] = "None"
ComposedPath(seg) == <<"composed_segment", seg>>

\* A plausible slip: the with-chart branch gives up like the no-chart one.
compose_segment_NoFallback(segment_info, chart_path, img_ok, pip_ok, fade_ok) ==
    IF (chart_path = "None" /\ fade_ok)
         \/ (chart_path # "None" /\ img_ok /\ pip_ok /\ fade_ok)
    THEN ComposedPath(segment_info.segment_id)
    ELSE NonePath(segment_info.segment_id)

\* compose_segment, lines 216-264: the path it returns, given the outcome
\* of the media steps it runs.
compose_segment(segment_info, chart_path, img_ok, pip_ok, fade_ok) ==
    LET segment_id == segment_info.segment_id
        avatar_video == segment_info.local_path
    IN  IF chart_path = "None"
        THEN IF fade_ok THEN ComposedPath(segment_id) ELSE NonePath(segment_id)
        ELSE IF ~img_ok THEN avatar_video
        ELSE IF pip_ok /\ fade_ok THEN ComposedPath(segment_id)
        ELSE avatar_video

\* The media steps compose_segment invokes, with their outcomes.
StepsRun(segment_id, chart_path, img_ok, pip_ok, fade_ok) ==
    LET r(b) == IF b THEN "ok" ELSE "failed" IN
    IF chart_path = "None"
    THEN [segment_id |-> segment_id, chart |-> chart_path,
          image_video |-> "skipped", pip |-> "skipped", fade |-> r(fade_ok)]
    ELSE [segment_id |-> segment_id, chart |-> chart_path,
          image_video |-> r(img_ok),
          pip |-> IF img_ok THEN r(pip_ok) ELSE "skipped",
          fade |-> IF img_ok /\ pip_ok THEN r(fade_ok) ELSE "skipped"]

\* Lines 300-305: one iteration of the compose loop.
ComposeSegment ==
    /\ pc = "compose"
    /\ ci <= Len(avatar_videos)
    /\ LET segment == avatar_videos[ci]
           chart_path == chart_mapping(segment.segment_id)
       IN \E img_ok \in BOOLEAN, pip_ok \in BOOLEAN, fade_ok \in BOOLEAN :
          LET composed_path ==
                  compose_segment(segment, chart_path, img_ok, pip_ok, fade_ok)
          IN  /\ composed_segments' =
                     IF IsNone(composed_path) THEN composed_segments
                     ELSE Append(composed_segments, composed_path)
              /\ composeLog' =
                     Append(composeLog,
                            StepsRun(segment.segment_id, chart_path,
                                     img_ok, pip_ok, fade_ok))
    /\ ci' = ci + 1
    /\ UNCHANGED <<configVars, cancel_requested, client, processVars, pc, stage, errorReported, result,
                   script_segments, charts, pollerLocals, outcome,
                   avatar_videos, concat_list, concatCalls, concat_rc,
                   placeholder,
                   final_video>>

\* A plausible slip: the list is written in ascending segment id.
concat_file_Sorted(video_list) ==
    LET rank(p) == Cardinality({i \in 1..Len(video_list) :
                                    video_list[i][2] <= p[2]})
    IN  [k \in 1..Len(video_list) |->
            CHOOSE p \in {video_list[i] : i \in 1..Len(video_list)} :
                rank(p) = k]

\* concatenate_videos, lines 167-172: the lines of concat_list.txt, one per
\* path of video_list, in list order.
concat_file(video_list) == video_list

\* A plausible slip: the outcome of the concatenation is not looked at.
FinalPath_Unchecked(rc_ok) ==
    IF rc_ok THEN "cricket_commentary_final.mp4"
    ELSE "cricket_commentary_final.mp4"

\* Lines 314-324: what create_final_video returns after concatenate_videos.
FinalPath(rc_ok) ==
    IF rc_ok THEN "cricket_commentary_final.mp4" ELSE "None"

\* Lines 307-324 and main.py 257-262: nothing composed returns None;
\* otherwise the concat list is written in list order and the toolchain's
\* exit status decides.
Concatenate ==
    /\ pc = "compose"
    /\ ci > Len(avatar_videos)
    /\ IF composed_segments = <<>>
       THEN /\ StageEnds(4, FALSE)
            /\ UNCHANGED <<concat_list, concatCalls, concat_rc, final_video>>
       ELSE \E rc_ok \in BOOLEAN :
            /\ concat_list' = concat_file(composed_segments)
            /\ concatCalls' = concatCalls + 1
            /\ concat_rc' = IF rc_ok THEN "zero" ELSE "nonzero"
            /\ final_video' = FinalPath(rc_ok)
            /\ StageEnds(4, FinalPath(rc_ok) # "None")
    /\ UNCHANGED <<configVars, cancel_requested, client, processVars, script_segments, charts, pollerLocals, outcome,
                   avatar_videos, composed_segments, ci, composeLog,
                   placeholder>>

(***************************************************************************)
(* The process: main() and the __main__ block of main.py.                  *)
(***************************************************************************)
\* A plausible slip: the stage handlers are bare "except:" clauses.
HandlerCatches_Bare(exc) == exc \in {"Exception", "KeyboardInterrupt"}

\* "except Exception" in every stage method and in run_full_pipeline
\* (main.py 116, 173, 195, 223, 264): KeyboardInterrupt derives from
\* BaseException and is not caught.
HandlerCatches(exc) == exc = "Exception"

\* main.py 368-386: main() returns 0 on success and 1 on failure.
ExitCode(success) == IF success = "true" THEN ExitSuccess ELSE ExitFailure

\* main.py 389-392: run_full_pipeline has returned; sys.exit(main()).
sys_exit ==
    /\ pc = "done"
    /\ exit_code = NotExited
    /\ exit_code' = ExitCode(result)
    /\ UNCHANGED <<configVars, cancel_requested, client, interruptedAt, pc, stage, errorReported, result,
                   script_segments, charts, pollerLocals, outcome,
                   avatar_videos, composerVars>>

\* main.py 396-400: an exception escapes main(), raised before the run
\* starts (os.makedirs in the constructor, line 53): sys.exit(1).
UnexpectedError ==
    /\ pc = "start"
    /\ pc' = "crashed"
    /\ exit_code' = ExitFailure
    /\ UNCHANGED <<configVars, cancel_requested, client, interruptedAt, stage, errorReported, result,
                   script_segments, charts, pollerLocals, outcome,
                   avatar_videos, composerVars>>

\* The stage the run is in, 0 outside the stages.
RunningStage ==
    IF \E k \in 1..Len(StageNames) : stage[k] = "running"
    THEN CHOOSE k \in 1..Len(StageNames) : stage[k] = "running"
    ELSE 0

\* The user interrupts the run: KeyboardInterrupt is raised at the point
\* the run is in (a stage, a poll round, a sleep).  No handler on the way
\* up catches it, the locals of the frames it unwinds are dropped, and the
\* __main__ block exits with 130 (main.py 393-395).
KeyboardInterrupt ==
    /\ pc \notin {"done", "crashed", "interrupted"}
    /\ interruptedAt' = pc
    /\ DropPollerLocals
    /\ status_info' = NoStatus
    /\ IF RunningStage # 0 /\ HandlerCatches("KeyboardInterrupt")
       THEN /\ StageEnds(RunningStage, FALSE)
            /\ UNCHANGED exit_code
       ELSE /\ pc' = "interrupted"
            /\ exit_code' = ExitInterrupted
            /\ UNCHANGED <<stage, errorReported, result>>
    /\ UNCHANGED <<configVars, cancel_requested, client, script_segments, charts, outcome, avatar_videos,
                   composerVars>>

Next ==
    \/ run_full_pipeline
    \/ generate_scripts
    \/ generate_charts
    \/ SubmitSegment
    \/ BeginPolling
    \/ RoundStart
    \/ CheckTask
    \/ RoundEnd
    \/ LoopExit
    \/ JobsReturn
    \/ compose_final_video
    \/ create_final_video
    \/ ComposeSegment
    \/ Concatenate
    \/ sys_exit
    \/ UnexpectedError
    \/ KeyboardInterrupt

Spec == Init /\ [][Next]_vars

\* The program is one thread whose calls all return: a step that can be
\* taken is eventually taken.
FairSpec == Spec /\ WF_vars(Next)

(***************************************************************************)
(* Direct use of AvatarVideoGenerator, outside the pipeline: a caller      *)
(* creates a task, asks for its status and downloads what the status       *)
(* names, in any order and with any of the arguments the pipeline could    *)
(* pass.  client.requests counts the HTTP requests sent.                   *)
(***************************************************************************)
client_create_avatar_video ==
    /\ pc = "start"
    /\ client.requests < MaxClientRequests
    /\ \E seg \in SegIds :
       \E resp \in (IF SendsRequest THEN SubmitResponses ELSE {"not_sent"}) :
          LET task == CreateTask(seg, resp) IN
          client' = [op |-> "create", task |-> task,
                     video_url |-> task.video_url,
                     local_path |-> <<"None", seg>>,
                     requests |-> client.requests
                                    + (IF SendsRequest THEN 1 ELSE 0)]
    /\ UNCHANGED <<configVars, cancel_requested, processVars, pc, stage,
                   errorReported, result, script_segments, charts,
                   pollerLocals, outcome, avatar_videos, composerVars>>

\* check_video_status(video_id, provider), lines 210-255, called with the
\* task's provider or with no provider argument (self.provider is used).
\* With an API key and a provider that is neither live nor "mock" no
\* request is made and the unbound response is caught: status "error".
client_check_video_status ==
    /\ pc = "start"
    /\ client.task # NoTask
    /\ client.requests < MaxClientRequests
    /\ \E arg \in {client.task.provider, "None"} :
       LET p == IF arg = "None" THEN provider ELSE arg IN
       IF IsSynthetic(p)
       THEN client' = [client EXCEPT
                         !.op = "status",
                         !.video_url =
                             SyntheticStatus(client.task.video_id, p).video_url]
       ELSE IF p \in {"heygen", "d-id"}
       THEN \E resp \in StatusBodies \cup StatusFailures :
               client' = [client EXCEPT
                            !.op = "status",
                            !.video_url =
                                RemoteLocator(check_video_status(resp).video_url),
                            !.requests = @ + 1]
       ELSE client' = [client EXCEPT !.op = "status", !.video_url = NoLocator]
    /\ UNCHANGED <<configVars, cancel_requested, processVars, pc, stage,
                   errorReported, result, script_segments, charts,
                   pollerLocals, outcome, avatar_videos, composerVars>>

\* download_video(video_url, filename), lines 257-280, on the locator the
\* last call produced.
client_download_video ==
    /\ pc = "start"
    /\ client.video_url # NoLocator
    /\ client.requests < MaxClientRequests
    /\ \E net_ok \in BOOLEAN :
          client' = [client EXCEPT
                       !.op = "download",
                       !.local_path =
                           download_video(client.video_url,
                                          client.task.segment_id, net_ok),
                       !.requests =
                           @ + (IF UsesNetwork(client.video_url) THEN 1 ELSE 0)]
    /\ UNCHANGED <<configVars, cancel_requested, processVars, pc, stage,
                   errorReported, result, script_segments, charts,
                   pollerLocals, outcome, avatar_videos, composerVars>>

ClientNext ==
    \/ client_create_avatar_video
    \/ client_check_video_status
    \/ client_download_video

ClientSpec == Init /\ [][ClientNext]_vars

(***************************************************************************)
(* A provider that keeps reporting a job completed without ever giving a   *)
(* content locator, in the rounds after MaxEventRound too.                 *)
(***************************************************************************)
CompletedNoLocator ==
    [kind |-> "body", status |-> "completed", video_url |-> "None"]

\* One iteration of the for loop of line 332 in a late round, on a live
\* task whose status body says completed and names no locator.
CheckTaskNoLocator ==
    /\ pc = "round"
    /\ ti <= Len(IterationList)
    /\ attempt > MaxEventRound
    /\ LET task == IterationList[ti] IN
       /\ task.provider # "mock"
       /\ \E net_ok \in BOOLEAN :
             CheckLive(task, check_video_status(CompletedNoLocator), net_ok)
       /\ lastTask' = task.segment_id
       /\ ti' = ti + 1
    /\ UNCHANGED <<pc, stage, errorReported, result, video_tasks,
                   submitResp, paceSleeps, tasks_to_check, attempt,
                   pollSleeps>>
    /\ UNCHANGED <<configVars, cancel_requested, client, processVars,
                   script_segments, charts, avatar_videos, composerVars>>

NextNoLocator ==
    \/ Next
    \/ CheckTaskNoLocator

SpecNoLocator == Init /\ [][NextNoLocator]_vars

(***************************************************************************)
(* Cancellation.  The specification of the pipeline speaks of a            *)
(* cancellation flag checked before each poll round and each stage.  No    *)
(* such flag exists in the program: the request is an event of the         *)
(* environment that no action of the program reads.                        *)
(***************************************************************************)
RequestCancel ==
    /\ ~cancel_requested
    /\ pc \notin {"done", "crashed", "interrupted"}
    /\ cancel_requested' = TRUE
    /\ UNCHANGED <<configVars, client, processVars, pc, stage, errorReported,
                   result, script_segments, charts, pollerLocals, outcome,
                   avatar_videos, composerVars>>

NextCancel ==
    \/ Next
    \/ RequestCancel

SpecCancel == Init /\ [][NextCancel]_vars

(***************************************************************************)
(* The claims.                                                             *)
(***************************************************************************)
AllMock == \A i \in 1..Len(video_tasks) : video_tasks[i].provider = "mock"
Ascending(s) == \A i, j \in 1..Len(s) : i < j => s[i] < s[j]
PathIds(s) == [i \in 1..Len(s) |-> s[i][2]]
Terminal == {"completed", "download_failed", "failed"}

\* C1: whatever the order in which the provider reports the jobs completed,
\* the artifacts handed to the composer (self.avatar_videos) and the clips
\* written to the concatenation list are in ascending segment id.
\* The code appends artifacts in completion order and never sorts, so this
\* is violated: it is stated here as the claim reads.
C1_FinalOrderIsSegmentOrder ==
    /\ Ascending(IdSeq(avatar_videos))
    /\ Ascending(PathIds(concat_list))

\* C2: when every submitted job is a mock job, the poller makes no status
\* query, no download and no inter-round sleep, and it returns exactly one
\* completed artifact per segment, in segment order.
C2_AllMockNoRemoteNoSleep ==
    AllMock =>
        /\ \A s \in SegIds : statusCalls[s] = 0 /\ fetchCalls[s] = 0
        /\ pollSleeps = 0
        /\ pc = "return" =>
              /\ Len(ReturnValue) = Len(script_segments)
              /\ IdSeq(ReturnValue) = script_segments
              /\ \A i \in 1..Len(ReturnValue) :
                    ReturnValue[i].status = "completed"

\* C2 witness: a run of three mock jobs, created by fallback from a live
\* provider, has returned.
C2_Witness ==
    /\ pc = "return"
    /\ AllMock
    /\ Len(video_tasks) = Len(TimedScript)
    /\ SendsRequest
    /\ Len(ReturnValue) = Len(TimedScript)

Occurrences(s, seg) == Cardinality({i \in 1..Len(s) : s[i].segment_id = seg})

Fetched(s) == fetchCalls'[s] = fetchCalls[s] + 1

\* C5: a job reported completed with a content locator is fetched exactly
\* once over the run: the fetch happens in the step of that status answer;
\* whether or not it succeeds, the job leaves the pending list in that step
\* (only that job does), a failed fetch is printed as a failure, the round
\* goes on with the next task of the snapshot, and a job whose fetch failed
\* is never queried or fetched again.
C5_FetchOnceNeverRetried ==
    /\ [](\A s \in SegIds : fetchCalls[s] <= 1)
    /\ [][\A s \in SegIds :
            /\ (statusCalls'[s] = statusCalls[s] + 1
                /\ status_info'.status = "completed"
                /\ status_info'.video_url # "None") => Fetched(s)
            /\ Fetched(s) =>
                  /\ status_info'.status = "completed"
                  /\ status_info'.video_url # "None"
                  /\ s \in SegsOf(pending_tasks)
                  /\ SegsOf(pending_tasks') = SegsOf(pending_tasks) \ {s}
                  /\ outcome'[s] \in {"completed", "download_failed"}
                  /\ (outcome'[s] = "download_failed"
                         <=> s \notin SegsOf(completed_videos'))
                  /\ pc' = "round" /\ ti' = ti + 1
                  /\ tasks_to_check' = tasks_to_check
            /\ outcome[s] = "download_failed" =>
                  /\ statusCalls'[s] <= statusCalls[s]
                  /\ fetchCalls'[s] <= fetchCalls[s]
                  /\ s \notin SegsOf(pending_tasks')
                  /\ outcome'[s] = "download_failed"]_vars

\* C5 witness: a fetch failed in round 1 and, a round later, another job is
\* still being polled.
C5_Witness ==
    /\ pc = "round"
    /\ attempt = 2
    /\ ti > 1
    /\ \E s \in SegIds : outcome[s] = "download_failed" /\ fetchCalls[s] = 1
    /\ pending_tasks # <<>>

\* C6: once a job is terminal for the poller (completed and fetched,
\* completed with a failed fetch, or failed), no later step queries its
\* status.
C6_TerminalNeverRequeried ==
    [][\A s \in SegIds :
          outcome[s] \in Terminal => statusCalls'[s] <= statusCalls[s]]_vars

\* C6 witness: in a later round, with one job failed and one job fetched,
\* a third job has just been queried.
C6_Witness ==
    /\ pc = "round"
    /\ attempt = 2
    /\ ti > 1
    /\ \E a, b, c \in SegIds :
          /\ outcome[a] = "failed"
          /\ outcome[b] = "completed" /\ fetchCalls[b] = 1
          /\ statusCalls[c] = 2

SomeTimedOut == \E s \in SegIds : outcome[s] = "timed_out"

\* The toolchain answered both probes, no media step failed and no
\* concatenation was refused: nothing but the jobs went wrong in Assembly.
HealthyAssembly ==
    /\ ci >= 1
    /\ \A i \in 1..Len(composeLog) :
          /\ composeLog[i].image_video # "failed"
          /\ composeLog[i].pip # "failed"
          /\ composeLog[i].fade # "failed"
    /\ (concatCalls > 0 => final_video # "None")

C8_FailedSubmitIsMock ==
    \A i \in 1..Len(video_tasks) :
        submitResp[video_tasks[i].segment_id] # "ok" =>
            /\ video_tasks[i].provider = "mock"
            /\ video_tasks[i].status = "completed"

MockSegs == {video_tasks[i].segment_id :
                 i \in {j \in 1..Len(video_tasks) :
                            video_tasks[j].provider = "mock"}}

\* C9 (as the claim reads): a mock job never enters the poll loop and no
\* round is spent on it.  Mock jobs are copied into pending_tasks and are
\* resolved inside round 1, so this is violated.
C9_MockNeverInPollLoop ==
    /\ \A i \in 1..Len(tasks_to_check) : tasks_to_check[i].provider # "mock"
    /\ (AllMock /\ pc = "return") => attempt = 0

\* C9 (amended): a mock job (offline mode, or fallback after a failed
\* submit) is in the pending list when the loop starts and is resolved in
\* round 1, as a completed artifact with a local placeholder file, with no
\* status query and no download; it is in no later round's snapshot, and a
\* run of mock jobs only spends exactly one round and no sleep.
C9_MockResolvedInRoundOne ==
    /\ \A s \in MockSegs :
          /\ statusCalls[s] = 0 /\ fetchCalls[s] = 0
          /\ (pc = "loop" /\ attempt = 0) => s \in SegsOf(pending_tasks)
          /\ ((pc = "loop" /\ attempt >= 1) \/ pc = "return") =>
                /\ s \notin SegsOf(pending_tasks)
                /\ outcome[s] = "completed"
                /\ \E i \in 1..Len(completed_videos) :
                      /\ completed_videos[i].segment_id = s
                      /\ completed_videos[i].status = "completed"
                      /\ completed_videos[i].local_path = <<"avatar_videos", s>>
          /\ (pc = "round" /\ attempt >= 2) => s \notin SegsOf(tasks_to_check)
    /\ (AllMock /\ pc = "return") => (attempt = 1 /\ pollSleeps = 0)

\* C9 witness: a job that fell back to mock after a failed submit was
\* resolved in round 1 while a live job is still polled in round 2.
C9_Witness ==
    /\ pc = "round"
    /\ attempt = 2
    /\ \E s \in MockSegs :
          /\ submitResp[s] = "http_error"
          /\ outcome[s] = "completed"
    /\ pending_tasks # <<>>

\* C10: the stages run in the order Scripts, Charts, Jobs, Assembly; a
\* stage is started only when every earlier stage ended in success; when a
\* stage fails no later stage is ever started, the run is over, it returns
\* False and the error printed is that stage's; the run returns True only
\* when all four stages succeeded.
C10_LinearStages ==
    /\ \A k \in 1..Len(StageNames) :
          /\ stage[k] # "idle" => \A j \in 1..(k - 1) : stage[j] = "success"
          /\ stage[k] = "running" => (pc # "done" /\ result = "none")
          /\ stage[k] = "failure" =>
                /\ \A j \in (k + 1)..Len(StageNames) : stage[j] = "idle"
                /\ pc = "done"
                /\ result = "false"
                /\ errorReported = StageError[k]
    /\ result = "true" => \A k \in 1..Len(StageNames) : stage[k] = "success"
    /\ result = "false" => \E k \in 1..Len(StageNames) : stage[k] = "failure"
    /\ pc = "done" => result # "none"

\* C10 witness: the Jobs stage failed after two successful stages and the
\* Assembly stage was never started.
C10_Witness ==
    /\ stage = <<"success", "success", "failure", "idle">>
    /\ pc = "done"
    /\ result = "false"
    /\ errorReported = "Avatar video generation failed"

\* The segments whose clip is in a list of clip paths.
ClipIds(s) == {s[i][2] : i \in 1..Len(s)}

\* C11 (as the claim reads): a segment composed without a chart never
\* yields a null path: its clip, at worst the avatar artifact itself when
\* the fade step fails, is among the composed segments.  compose_segment
\* returns None when add_fade_transition fails (line 238) and
\* create_final_video then skips the segment, so this is violated.
C11_NoChartNeverNull ==
    \A i \in 1..Len(composeLog) :
        composeLog[i].chart = "None" =>
            composeLog[i].segment_id \in ClipIds(composed_segments)

\* C12: a segment composed with a chart always yields a non-null clip,
\* whatever the outcome of the image-to-video, picture-in-picture and fade
\* steps: the composed clip when all three succeed, the unmodified avatar
\* artifact otherwise; the segment is never dropped.
C12_ChartSegmentNeverNull ==
    \A i \in 1..Len(composeLog) :
        composeLog[i].chart # "None" =>
            LET seg == composeLog[i].segment_id
                all_ok == /\ composeLog[i].image_video = "ok"
                          /\ composeLog[i].pip = "ok"
                          /\ composeLog[i].fade = "ok"
            IN  /\ avatar_videos[i].segment_id = seg
                /\ \E j \in 1..Len(composed_segments) :
                      /\ composed_segments[j][2] = seg
                      /\ ~IsNone(composed_segments[j])
                      /\ composed_segments[j] =
                            IF all_ok THEN ComposedPath(seg)
                            ELSE avatar_videos[i].local_path

\* C12 witness: a run has ended in which the fade step failed for one
\* segment with a chart and the picture-in-picture step for the other, and
\* a clip was kept for both.
C12_Witness ==
    /\ pc = "done"
    /\ \E i \in 1..Len(composeLog) :
          composeLog[i].chart # "None" /\ composeLog[i].fade = "failed"
    /\ \E i \in 1..Len(composeLog) :
          composeLog[i].chart # "None" /\ composeLog[i].pip = "failed"
    /\ Len(composed_segments) >= 2

\* The subsequence of ids whose segment has a clip in a list of clips.
KeptIds(ids, clips) ==
    LET kept(id) == id \in ClipIds(clips) IN SelectSeq(ids, kept)

\* C13: the assembler never re-orders: the clips create_final_video has
\* composed so far are in the order of the artifact list it was given
\* (segments without a clip left out), and the concatenation list holds
\* exactly those clips in exactly that order.
C13_NoResort ==
    /\ PathIds(composed_segments) =
           KeptIds(IdSeq(avatar_videos), composed_segments)
    /\ concatCalls > 0 =>
           /\ concat_list = composed_segments
           /\ PathIds(concat_list) = KeptIds(IdSeq(avatar_videos), concat_list)

\* C13 witness: the artifacts arrived in the order 3, 1, 2 and the
\* concatenation list was written in the order 3, 1, 2.
C13_Witness ==
    /\ IdSeq(avatar_videos) = <<3, 1, 2>>
    /\ concatCalls = 1
    /\ PathIds(concat_list) = <<3, 1, 2>>

\* The orchestrator's probe found no toolchain: only then is the mock file
\* of main.py 245-248 written.
OrchestratorProbeFailed == final_video = "mock_final_video.txt"

\* C14: when the orchestrator's toolchain probe fails, whatever artifacts
\* the Jobs stage delivered, no media step is run, the Assembly stage ends
\* in success and the run returns True.
C14_ProbeFailureIsSuccess ==
    OrchestratorProbeFailed =>
        /\ stage = <<"success", "success", "success", "success">>
        /\ pc = "done"
        /\ result = "true"
        /\ errorReported = "none"
        /\ composeLog = <<>>
        /\ concatCalls = 0

\* C14 witness: the probe failed in a run whose three jobs delivered no
\* artifact at all, and the run ended in success.
C14_Witness ==
    /\ OrchestratorProbeFailed
    /\ script_segments = TimedScript
    /\ avatar_videos = <<>>
    /\ result = "true"

\* The Assembly stage degraded: one of the two placeholder files was
\* written in place of a video.
PlaceholderWritten ==
    final_video \in {"mock_final_video.txt", "mock_cricket_commentary_final.mp4"}

\* C15 (as the claim reads): whenever the Assembly stage degrades, the
\* placeholder file lists one entry per artifact handed to assembly, with
\* its local path, in input order.  The file written by the orchestrator
\* (main.py 245-248) holds two fixed lines and no input, so this is
\* violated in a full pipeline run.
C15_PlaceholderListsInputs ==
    PlaceholderWritten => placeholder = Manifest(avatar_videos)

\* Both probes found the toolchain and the Assembly stage has ended.
ToolchainPresentDone == ci >= 1 /\ pc = "done"

OfflineHealthyRun ==
    /\ script_segments = TimedScript
    /\ ~SendsRequest
    /\ ToolchainPresentDone
    /\ Len(composeLog) = Len(avatar_videos)
    /\ \A i \in 1..Len(composeLog) :
          /\ composeLog[i].image_video # "failed"
          /\ composeLog[i].pip # "failed"
          /\ composeLog[i].fade # "failed"
    /\ concat_rc # "nonzero"

\* C17: in the end-to-end scenario exactly three clips are composed;
\* segment 2 goes through the fade step only, segments 1 and 3 go through
\* image-to-video, picture-in-picture and fade with the run-rate and the
\* manhattan chart; the concatenation is invoked exactly once, on the three
\* composed clips in the order 1, 2, 3; the run returns True.
C17_EndToEnd ==
    OfflineHealthyRun =>
        /\ IdSeq(avatar_videos) = <<1, 2, 3>>
        /\ composeLog =
              << [segment_id |-> 1, chart |-> "run_rate", image_video |-> "ok",
                  pip |-> "ok", fade |-> "ok"],
                 [segment_id |-> 2, chart |-> "None", image_video |-> "skipped",
                  pip |-> "skipped", fade |-> "ok"],
                 [segment_id |-> 3, chart |-> "manhattan", image_video |-> "ok",
                  pip |-> "ok", fade |-> "ok"] >>
        /\ composed_segments =
              <<ComposedPath(1), ComposedPath(2), ComposedPath(3)>>
        /\ concatCalls = 1
        /\ concat_list = composed_segments
        /\ final_video = "cricket_commentary_final.mp4"
        /\ result = "true"

\* C17 witness: the end-to-end scenario has run to its end with three
\* clips in the concatenation list.
C17_Witness ==
    /\ OfflineHealthyRun
    /\ Len(concat_list) = 3
    /\ result = "true"

\* C18: the process exits with 0 exactly when run_full_pipeline returned
\* True, with 1 when it returned False or an exception escaped main(), and
\* with 130 when the user interrupted the run, at whatever point (any
\* stage, a poll round, a sleep); an interrupt is never turned into a stage
\* failure, a pipeline result or another exit code by a stage's handler.
C18_ExitCodes ==
    /\ exit_code \in {NotExited, ExitSuccess, ExitFailure, ExitInterrupted}
    /\ interruptedAt # "none" =>
          /\ exit_code = ExitInterrupted
          /\ result = "none"
          /\ errorReported = "none"
          /\ \A k \in 1..Len(StageNames) : stage[k] # "failure"
    /\ exit_code = ExitInterrupted => interruptedAt # "none"
    /\ exit_code = ExitSuccess => result = "true"
    /\ exit_code = ExitFailure => (result = "false" \/ pc = "crashed")
    /\ (exit_code # NotExited /\ result = "true") => exit_code = ExitSuccess
    /\ (exit_code # NotExited /\ result = "false") => exit_code = ExitFailure
    /\ pc = "crashed" => exit_code = ExitFailure

\* C18 witness: the user interrupted the run in the middle of a poll round
\* of the Jobs stage and the process exited with 130.
C18_Witness ==
    /\ interruptedAt = "round"
    /\ stage[3] = "running"
    /\ exit_code = ExitInterrupted
    /\ \E s \in SegIds : outcome[s] = "completed"

\* C19 (as the claim reads): a timeout or transport error raised by one
\* status query costs that attempt only: it neither aborts the poller nor
\* fails the Jobs stage or the run.  requests.get is called outside the try
\* block of check_video_status (lines 224-236), the exception leaves
\* generate_commentary_videos, and generate_avatar_videos returns False, so
\* this is violated.
C19_StatusTransportErrorNotFatal ==
    status_info.status = "raised" =>
        /\ stage[3] # "failure"
        /\ result # "false"

\* C20 (as the claim reads): once a cancellation has been requested, no
\* further poll round is started and no further stage is started.  Neither
\* the while condition of the poll loop (line 324) nor run_full_pipeline
\* looks at anything but the pending list, the round count and the stages'
\* return values, so this is violated.
C20_NoRoundOrStageAfterCancel ==
    [][cancel_requested =>
          /\ attempt' <= attempt
          /\ \A k \in 1..Len(StageNames) :
                stage[k] = "idle" => stage'[k] = "idle"]_vars

\* C21 (as the claim reads): a job whose status query answers "failed" is
\* removed from the pending list in that same round.  The poller removes a
\* job only on the status "error" (line 378); "failed" falls into the else
\* branch of line 385 and the job stays pending, so this is violated.
C21_FailedJobLeavesPending ==
    (pc = "round" /\ status_info.status = "failed") =>
        lastTask \notin SegsOf(pending_tasks)

\* The submissions so far that a live provider accepted.
LiveSubmissions == {i \in 1..Len(video_tasks) : video_tasks[i].provider # "mock"}

\* C22 (as the claim reads): the submit loop sleeps its one-unit pacing
\* delay only after a submission to a live provider, never after one that
\* produced a mock job.  time.sleep(1) on line 313 is unconditional, so this
\* is violated.
C22_NoPacingAfterMock ==
    pc = "submit" => paceSleeps <= Cardinality(LiveSubmissions)

\* C23: a poll round is followed by the sleep of PollInterval exactly when
\* a job is still pending as the round ends; a round that empties the
\* pending list is followed by no sleep and by no further round.  Between
\* rounds the loop has therefore slept once per round, less the last one
\* when that round emptied the list.
C23_SleepIffPending ==
    /\ [](pc = "loop" =>
            pollSleeps = IF pending_tasks # <<>> \/ attempt = 0 THEN attempt
                         ELSE attempt - 1)
    /\ [][(pc = "round" /\ pc' = "loop") =>
            /\ pending_tasks' = pending_tasks
            /\ pollSleeps' = IF pending_tasks # <<>> THEN pollSleeps + 1
                             ELSE pollSleeps]_vars
    /\ [][(pc = "loop" /\ pending_tasks = <<>>) =>
            (pc' # "round" /\ attempt' <= attempt /\ pollSleeps' <= pollSleeps)]_vars

\* C23 witness: the second round emptied the pending list of a live
\* provider's jobs; the loop slept after the first round only.
C23_Witness ==
    /\ pc = "loop"
    /\ SendsRequest
    /\ pending_tasks = <<>>
    /\ attempt = 2
    /\ pollSleeps = 1

\* The status strings the poller takes for a job still in flight:
\* "processing" and "pending" (line 382) and, of the answers the model's
\* provider gives, "failed", which the poller does not recognize.
InFlightStatuses == {"processing", "pending", "failed"}

\* C24: a status query answered with "processing", "pending" or a status
\* string the poller does not recognize changes nothing in the poller but
\* the position in the round: the job stays pending, no artifact is added,
\* no download is attempted and nothing is recorded about the job.
C24_InFlightLeavesStateUnchanged ==
    [][(pc = "round" /\ pc' = "round"
          /\ \E s \in SegIds : statusCalls'[s] = statusCalls[s] + 1
          /\ status_info'.status \in InFlightStatuses) =>
            /\ pending_tasks' = pending_tasks
            /\ completed_videos' = completed_videos
            /\ fetchCalls' = fetchCalls
            /\ outcome' = outcome
            /\ lastTask' \in SegsOf(pending_tasks')
            /\ attempt' = attempt
            /\ pollSleeps' = pollSleeps]_vars

\* C24 witness: in round 2 a job answered with the unrecognized status
\* "failed" for the second time and is still pending.
C24_Witness ==
    /\ pc = "round"
    /\ attempt = 2
    /\ status_info.status = "failed"
    /\ statusCalls[lastTask] = 2
    /\ lastTask \in SegsOf(pending_tasks)
    /\ fetchCalls[lastTask] = 0

\* The picture-in-picture composite of a segment (pip_path, lines 251-254).
PipPath(seg) == <<"pip_segment", seg>>

\* C25 (as the claim reads): each failure of an overlay step falls back to
\* the best clip made so far: the avatar artifact when the chart conversion
\* or the picture-in-picture fails, the picture-in-picture composite when
\* the fade fails after it.  When the fade fails compose_segment falls
\* through to "return avatar_video" (line 264) and the composite is
\* discarded, so this is violated.
C25_BestArtifactSoFar ==
    \A i \in 1..Len(composeLog) :
        composeLog[i].chart # "None" =>
            LET seg == composeLog[i].segment_id
                best == IF composeLog[i].image_video = "failed"
                           \/ composeLog[i].pip = "failed"
                        THEN avatar_videos[i].local_path
                        ELSE IF composeLog[i].fade = "failed" THEN PipPath(seg)
                        ELSE ComposedPath(seg)
            IN  \E j \in 1..Len(composed_segments) :
                    composed_segments[j] = best

NoDuplicates(s) == \A i, j \in 1..Len(s) : s[i] = s[j] => i = j

\* C26: in every state of the poller each segment id appears at most once
\* in the artifact list, and a segment with an artifact is no longer
\* pending; the list handed to the composer has no duplicate either.
C26_AtMostOneArtifactPerSegment ==
    /\ NoDuplicates(script_segments)
    /\ NoDuplicates(IdSeq(completed_videos))
    /\ NoDuplicates(IdSeq(avatar_videos))
    /\ pc \in {"loop", "round"} =>
          SegsOf(completed_videos) \cap SegsOf(pending_tasks) = {}

\* C26 witness: three live jobs completed, some in round 1 and some in
\* round 2, and the list returned holds three artifacts.
C26_Witness ==
    /\ pc = "return"
    /\ SendsRequest
    /\ attempt = 2
    /\ Len(completed_videos) = 3
    /\ \E s \in SegIds : statusCalls[s] = 1
    /\ \E s \in SegIds : statusCalls[s] = 2

\* The poll loop is running before and after the step.
InPollLoop == pc \in {"loop", "round"} /\ pc' \in {"loop", "round", "return"}

\* C27: the pending list only shrinks.  It is filled once, from the
\* submitted jobs, as polling begins; while the loop runs no job is ever
\* added to it, a job leaves it only with a terminal outcome (completed,
\* download failed, failed), and a job with a terminal outcome is not in it.
C27_PendingOnlyShrinks ==
    /\ [](pc \in {"loop", "round"} =>
            /\ SegsOf(pending_tasks) \subseteq SegsOf(video_tasks)
            /\ \A s \in SegsOf(video_tasks) :
                  s \in SegsOf(pending_tasks) <=> outcome[s] \notin Terminal)
    /\ [][InPollLoop =>
            /\ SegsOf(pending_tasks') \subseteq SegsOf(pending_tasks)
            /\ Len(pending_tasks') <= Len(pending_tasks)
            /\ \A s \in SegsOf(pending_tasks) \ SegsOf(pending_tasks') :
                  outcome'[s] \in Terminal]_vars
    /\ [][~(SegsOf(pending_tasks') \subseteq SegsOf(pending_tasks)) =>
            (pc = "submit" /\ pc' = "loop" /\ pending_tasks' = video_tasks)]_vars

\* C27 witness: of three live jobs two left the pending list in round 1
\* and the third is being polled in round 2.
C27_Witness ==
    /\ pc = "round"
    /\ SendsRequest
    /\ attempt = 2
    /\ Len(video_tasks) = 3
    /\ Len(pending_tasks) = 1
    /\ Len(tasks_to_check) = 1

\* What is left of the poll loop: the rounds not yet started and, within a
\* round, the tasks of the snapshot not yet examined.
PollRank ==
    (max_attempts - attempt) * (Len(TimedScript) + 2)
        + (IF pc = "round" THEN Len(tasks_to_check) + 3 - ti
           ELSE IF pc = "loop" THEN 1 ELSE 0)

\* C28, safety: the loop never starts more than max_attempts (60) rounds;
\* a job is queried at most once per round, hence at most 60 times, and
\* only when it is in the round's snapshot and still pending; every step of
\* the loop brings it closer to its end.
C28_BoundedRoundsAndQueries ==
    /\ [](/\ attempt <= max_attempts
          /\ \A s \in SegIds : statusCalls[s] <= attempt)
    /\ [][\A s \in SegIds :
            statusCalls'[s] > statusCalls[s] =>
                /\ statusCalls'[s] = statusCalls[s] + 1
                /\ statusCalls[s] < attempt
                /\ attempt' = attempt
                /\ s \in SegsOf(tasks_to_check)
                /\ s \in SegsOf(pending_tasks)]_vars
    /\ [][InPollLoop => (PollRank' < PollRank /\ PollRank' >= 0)]_vars

ExaminedThisRound(task) ==
    IF task.provider = "mock" THEN outcome[task.segment_id] = "completed"
    ELSE statusCalls[task.segment_id] = attempt

\* The task has not been examined yet in the current round.
NotYetExamined(task) ==
    /\ task.segment_id \in SegsOf(pending_tasks)
    /\ IF task.provider = "mock" THEN outcome[task.segment_id] = "none"
       ELSE statusCalls[task.segment_id] = attempt - 1

\* C29: a round examines the jobs that were pending at its start, each
\* exactly once and in list order, whatever is removed from the pending
\* list meanwhile: the snapshot is the pending list of the round's start,
\* the tasks before the round's position have been examined once, those
\* from it on not yet, and at the end of the round no pending job was
\* skipped.
C29_SnapshotIteration ==
    /\ [](pc = "round" =>
            /\ NoDuplicates(IdSeq(tasks_to_check))
            /\ SegsOf(pending_tasks) \subseteq SegsOf(tasks_to_check)
            /\ ti \in 1..(Len(tasks_to_check) + 1)
            /\ \A i \in 1..Len(tasks_to_check) :
                  IF i < ti THEN ExaminedThisRound(tasks_to_check[i])
                  ELSE NotYetExamined(tasks_to_check[i]))
    /\ [](pc = "loop" /\ attempt >= 1 =>
            \A i \in 1..Len(pending_tasks) :
                /\ pending_tasks[i].provider # "mock"
                /\ statusCalls[pending_tasks[i].segment_id] = attempt)
    /\ [][(pc = "loop" /\ pc' = "round") =>
            tasks_to_check' = pending_tasks]_vars
    /\ [][(pc = "round" /\ pc' = "round") =>
            /\ tasks_to_check' = tasks_to_check
            /\ ti' = ti + 1
            /\ lastTask' = tasks_to_check[ti].segment_id]_vars

\* C29 witness: the first two jobs of a round's snapshot of three were
\* removed from the pending list during the round and the third has been
\* examined all the same.
C29_Witness ==
    /\ pc = "round"
    /\ Len(tasks_to_check) = 3
    /\ ti = 4
    /\ SendsRequest
    /\ SegsOf(pending_tasks) = {tasks_to_check[3].segment_id}
    /\ statusCalls[tasks_to_check[3].segment_id] = attempt

\* C30: without an API key, or with a provider that is neither of the two
\* live ones, the client never sends a request: every task it creates is a
\* mock task, every locator it produces, at submit and at status check,
\* starts with "mock_", and downloading such a locator yields the local
\* placeholder file.
C30_OfflineNeedsNoNetwork ==
    ~SendsRequest =>
        /\ client.requests = 0
        /\ client.task # NoTask =>
              /\ client.task.provider = "mock"
              /\ startswith(client.task.video_url, MockPrefix)
        /\ client.video_url # NoLocator =>
              /\ startswith(client.video_url, MockPrefix)
              /\ ~UsesNetwork(client.video_url)
        /\ client.op = "download" =>
              client.local_path = <<"avatar_videos", client.task.segment_id>>

\* C30 witness: a client of a live provider without an API key created a
\* task, asked for its status without naming a provider and downloaded the
\* locator synthesized by the status check, with no request sent.
C30_Witness ==
    /\ provider = "heygen"
    /\ ~api_key
    /\ client.op = "download"
    /\ client.video_url = SyntheticStatus(client.task.video_id, provider).video_url
    /\ client.local_path = <<"avatar_videos", client.task.segment_id>>
    /\ client.requests = 0

\* C31: a status query that ends in a protocol failure (HTTP error status
\* or a body that is not JSON) neither ends the Jobs stage nor drops the
\* job: after that poll the job is still pending and the round goes on.
C31_ProtocolFailureKeepsJob ==
    [][\A resp \in StatusFailures :
          (/\ pc = "round"
           /\ statusCalls' # statusCalls
           /\ status_info' = check_video_status(resp))
          => /\ pc' = "round"
             /\ pending_tasks' = pending_tasks]_vars

NoLocatorStatus == check_video_status(CompletedNoLocator)

YieldedNoClip(i) ==
    composeLog[i].chart = "None" /\ composeLog[i].fade = "failed"

\* The ids of the artifacts composed so far whose composition yielded a clip,
\* in input order.
IdsWithClip ==
    LET n == Len(composeLog)
        kept(id) == \E i \in 1..n :
                       composeLog[i].segment_id = id /\ ~YieldedNoClip(i)
    IN  SelectSeq(SubSeq(IdSeq(avatar_videos), 1, n), kept)

\* C33: in create_final_video with the toolchain present, a segment whose
\* composition yields no clip is left out and the other clips keep their
\* input order; concatenation is invoked at most once, only on a non-empty
\* list, which is the list of composed clips; when no clip was composed the
\* function returns no path and concatenation is not invoked.
C33_OmitsNoClipConcatOnce ==
    ci >= 1 =>
        /\ \A i \in 1..Len(composeLog) :
              YieldedNoClip(i) <=>
                  composeLog[i].segment_id \notin ClipIds(composed_segments)
        /\ PathIds(composed_segments) = IdsWithClip
        /\ concatCalls <= 1
        /\ concatCalls = 1 =>
              /\ composed_segments # <<>>
              /\ concat_list = composed_segments
              /\ pc \in {"done", "interrupted"}
        /\ (pc = "done" /\ composed_segments = <<>>) =>
              /\ concatCalls = 0
              /\ concat_rc = "none"
              /\ final_video = "None"
        /\ (pc = "done" /\ composed_segments # <<>>) => concatCalls = 1

\* C33 witness: the artifacts arrived in the order 3, 1, 2, the composition
\* of segment 2 yielded no clip, and the one concatenation was given the
\* clips of segments 3 and 1 in that order.
C33_Witness ==
    /\ pc = "done"
    /\ IdSeq(avatar_videos) = <<3, 1, 2>>
    /\ \E i \in 1..Len(composeLog) :
          composeLog[i].segment_id = 2 /\ YieldedNoClip(i)
    /\ concatCalls = 1
    /\ PathIds(concat_list) = <<3, 1>>

\* The Assembly stage has ended without entering the compose loop: one of
\* the two toolchain probes failed.
ProbeFailedDone ==
    pc = "done" /\ stage[4] \in {"success", "failure"} /\ ci = 0

\* C34 (as the claim reads): whichever of the two probes of the toolchain
\* fails, the Assembly stage ends in success with a placeholder file
\* written.  When the probe inside create_final_video fails the manifest is
\* opened at "mock_" + output_filename, a path inside a directory
\* mock_cricket_output that nothing creates; open() raises, the handler of
\* compose_final_video returns False and the stage fails, so this is
\* violated.
C34_EitherProbeFailureIsSuccess ==
    ProbeFailedDone =>
        /\ stage[4] = "success"
        /\ result = "true"
        /\ PlaceholderWritten

====
